---------------------------- MODULE Spec2Model ----------------------------
(***************************************************************************)
(* Scoreboard service (problem6): the award-and-leaderboard update         *)
(* protocol.  The leaderboard is a Redis sorted set, the idempotency and   *)
(* replay guards are Redis keys written with SETNX and a TTL, changes are  *)
(* published on a channel and a persistence job is queued for the worker.  *)
(***************************************************************************)
EXTENDS Integers, Sequences, FiniteSets, TLC

(* ------------------------------ bounds --------------------------------- *)
\* concurrent award requests
MaxReq == 2
\* TTL expiries of guard records in one behaviour
MaxExpire == 1
\* concurrent increment(user, +1) callers of the store
NInc == 4
\* number of events the notifier retains for resuming subscribers
Retain == 2
\* largest limit asked of the leaderboard read
MaxK == 3
\* events published while subscribers are followed
MaxEvents == 4
\* "N attempts": the attempts after which the worker gives a job up
MaxAttempts == 2
\* jobs handed to the persistence worker
MaxJobs == 3
\* sum_to_n is called with n in -MaxN..MaxN
MaxN == 6
\* book ids 1..MaxBookId
MaxBookId == 2
\* requests answered by the book and auth routes in one behaviour
MaxServed == 4
\* rate-limit windows of /api/auth that end in one behaviour
MaxWindows == 1

\* users that hold a token (user ids are ordered, as Redis orders members)
Users == {1, 2}
Anonymous == 0
\* the completions clients report: action_id and the action_type it is of
Completions == {<<"A1", "watch_video">>, <<"A2", "share_link">>}
ActionIds == {c[1] : c \in Completions}
Keys == {"K1", "K2"}
None == "none"

(* --------------------------- rule table -------------------------------- *)
\* rules.json, version 3
Rules == [t \in {"watch_video", "share_link", "daily_login"} |->
            CASE t = "watch_video" -> 25
              [] t = "share_link" -> 5
              [] t = "daily_login" -> 10]

\* (mutation) every action type is let through
RuleEnabledAll(t) == TRUE

\* action_type allowlist: unknown actions are treated as disabled
RuleEnabled(t) == t \in DOMAIN Rules

\* points = rules[action_type], defaulting to 0 (disabled) when missing
LookupPoints(t) == IF t \in DOMAIN Rules THEN Rules[t] ELSE 0

(* ------------------ sorted set leaderboard:global ---------------------- *)
\* A sorted set is a function from its members to their scores.

\* Redis orders a sorted set by score and equal scores by member; the
\* reverse commands (ZREVRANGE, ZREVRANK) read that order backwards.
RevBefore(z, a, b) == z[a] > z[b] \/ (z[a] = z[b] /\ a > b)

ZScore(z, u) == IF u \in DOMAIN z THEN z[u] ELSE 0

\* (mutation) ZADD in place of ZINCRBY: the score is set to the delta
ZAddScore(z, u, d) == [m \in DOMAIN z \cup {u} |-> IF m = u THEN d ELSE z[m]]

\* ZINCRBY key delta member: one atomic command; a missing member starts at 0
ZIncrBy(z, u, d) == [m \in DOMAIN z \cup {u} |-> IF m = u THEN ZScore(z, u) + d ELSE z[m]]

RECURSIVE RevOrder(_, _)
RevOrder(z, S) ==
  IF S = {} THEN <<>>
  ELSE LET m == CHOOSE x \in S : \A y \in S \ {x} : RevBefore(z, x, y)
       IN  <<m>> \o RevOrder(z, S \ {m})

Min(a, b) == IF a < b THEN a ELSE b

\* (mutation) ZREVRANGE key 0 k: the stop index is inclusive, one entry more
ZRevRangeInclusive(z, k) ==
  LET all == RevOrder(z, DOMAIN z)
  IN  [i \in 1..Min(k + 1, Len(all)) |-> [user_id |-> all[i], total |-> z[all[i]]]]

\* ZREVRANGE key 0 k-1 WITHSCORES
ZRevRange(z, k) ==
  LET all == RevOrder(z, DOMAIN z)
  IN  [i \in 1..Min(k, Len(all)) |-> [user_id |-> all[i], total |-> z[all[i]]]]

\* ZREVRANK key member (0-based), nil for a member that is not in the set
ZRevRank(z, u) ==
  IF u \in DOMAIN z THEN Cardinality({m \in DOMAIN z : RevBefore(z, m, u)}) ELSE -1

\* Rank: ZREVRANK (+1 for 1-based); 0 stands for "unranked"
Rank(z, u) == ZRevRank(z, u) + 1

\* GET /v1/leaderboard?limit=k
TopK(z, k) == ZRevRange(z, k)


(* ------------------------- guard records ------------------------------- *)
\* hash(payload): the body fields that describe the completion.  The hash
\* is taken without collisions: two payloads have one hash only when equal.
PayloadHash(q) == <<q.action_type, q.action_id>>

\* (mutation) SET in place of SETNX: the write always happens
SetAlwaysWritten(present) == TRUE

\* SETNX writes only when the key holds nothing: the reply is 1 (written)
\* exactly when the key was absent
SetNxWritten(present) == ~present

\* (mutation) the stored hash is not compared with the payload's: a key
\* reused for another payload is taken over
CheckAndReserveNoCompare(store, k, h) ==
  IF store[k] = None \/ store[k] # h THEN "Fresh" ELSE "Duplicate"

\* SETNX idemp:{key} payloadHash EX 86400 -> if exists and hash # payload, 409
CheckAndReserve(store, k, h) ==
  IF SetNxWritten(store[k] # None) THEN "Fresh"
  ELSE IF store[k] = h THEN "Duplicate"
  ELSE "Conflict"

\* (mutation) the replay key is written but its reply is ignored
CheckReplayIgnored(seen, u, a) == "NotSeen"

\* SETNX action:{user}:{action_id} 1 EX 604800 -- first write wins
CheckReplay(seen, u, a) ==
  IF SetNxWritten(<<u, a>> \in seen) THEN "NotSeen" ELSE "AlreadyAwarded"

\* Validate JWT -> user_id (sub); a request without a valid token has none
JwtValid(q) == q.user \in Users

(* --------------------------- change notifier --------------------------- *)

\* the last n elements of a sequence
Suffix(s, n) == IF Len(s) <= n THEN s ELSE SubSeq(s, Len(s) - n + 1, Len(s))

\* publish(event): append to the ordered log under the next sequence id and
\* keep the retained suffix window
Publish(l, seq, ev) ==
  Suffix(Append(l, [user_id |-> ev.user_id, delta |-> ev.delta,
                    new_total |-> ev.new_total, rank |-> ev.rank,
                    sequence_id |-> seq]), Retain)

(* ------------------------------ state ---------------------------------- *)
VARIABLES
  pc,        \* request -> its position in the award endpoint logic
  rq,        \* request -> user (from the JWT) and body
  work,      \* request -> the handler's locals (guard reply, points, total)
  out,       \* request -> the response sent
  idem,      \* idemp:{key} -> payload hash, or None
  replay,    \* the action:{user}:{action_id} keys that exist
  zset,      \* leaderboard:global
  mirror,    \* user:{id}:score
  log,       \* the notifier's retained events
  nextSeq,   \* the next sequence id
  queue,     \* persistence jobs handed to the worker
  awards,    \* history: <<user, action_id>> -> increments applied
  idemExpired,   \* history: idempotency key -> times its TTL ran out
  replayExpired, \* history: <<user, action_id>> -> times its TTL ran out
  effects,   \* history: request -> the shared state it wrote
  incTarget, \* store caller -> the user it increments
  incDone,   \* store caller -> whether its increment was applied
  subs,      \* subscriber -> connection state
  scoreAwards,   \* table score_awards
  userScores,    \* table user_scores: user -> total
  dlq,           \* jobs moved to the dead-letter queue
  attempts,      \* award_id -> attempts the worker made at its job
  wpc,           \* the worker's position within an attempt
  written,       \* history: jobs whose INSERT and UPSERT both succeeded
  sumN,          \* problem4: the argument n
  sumOut,        \* problem4: function name -> value returned, or NoResult
  books,         \* problem5: table books, id -> row
  usersDb,       \* problem5: table users, in the order of their ids
  hits,          \* problem5: limiter -> requests counted in its window
  served,        \* problem5: requests answered
  last,          \* problem5: the request answered last and its response
  accounts,      \* problem5: table users with roles, id -> row
  sensitive,     \* problem5: requests counted by rateLimiters.sensitive
  res,           \* problem5: the response sent last, with its headers
  window,        \* problem5: windows of rateLimiters.auth that have ended
  passed         \* history: /api/auth requests past the limiter this window

awardVars == <<pc, rq, work, out, idem, replay, zset, mirror, log, nextSeq,
               queue, awards, idemExpired, replayExpired, effects>>
storeVars == <<incTarget, incDone>>
relayVars == <<scoreAwards, userScores, dlq, attempts, wpc, written>>
sumVars == <<sumN, sumOut>>
\* the state of the other components
sessVars == <<accounts, sensitive, res, window, passed>>
apiVars == <<books, usersDb, hits, served, last, sessVars>>
extVars == <<relayVars, sumVars, apiVars>>
vars == <<pc, rq, work, out, idem, replay, zset, mirror, log, nextSeq,
          queue, awards, idemExpired, replayExpired, effects, incTarget, incDone, subs,
          extVars>>

Reqs == 1..MaxReq
Callers == 1..NInc
Pairs == Users \X ActionIds
Subscribers == {"S1"}
\* the members the store's callers increment
StoreUsers == {1, 2, 3}

NoReq == [user |-> Anonymous, action_type |-> "foo", action_id |-> "A1", key |-> "K1"]
NoWork == [idem |-> None, points |-> 0, total |-> 0]
NoOut == [status |-> 0, error |-> None, total |-> 0, delta |-> 0, rank |-> 0]

\* the requests clients send: user 1 reports either completion and user 2
\* the first one, under either key; one request names an unknown action
\* type and one carries no valid token
Payloads ==
  {[user |-> 1, action_type |-> c[2], action_id |-> c[1], key |-> k] :
     c \in Completions, k \in Keys}
  \cup {[user |-> 2, action_type |-> "watch_video", action_id |-> "A1", key |-> k] : k \in Keys}
  \cup {[user |-> 1, action_type |-> "foo", action_id |-> "A1", key |-> "K1"]}
  \cup {NoReq}

AwardInit ==
  /\ pc = [r \in Reqs |-> "Idle"]
  /\ rq = [r \in Reqs |-> NoReq]
  /\ work = [r \in Reqs |-> NoWork]
  /\ out = [r \in Reqs |-> NoOut]
  /\ idem = [k \in Keys |-> None]
  /\ replay = {}
  /\ zset = <<>>
  /\ mirror = [u \in Users |-> 0]
  /\ log = <<>>
  /\ nextSeq = 1
  /\ queue = <<>>
  /\ awards = [p \in Pairs |-> 0]
  /\ idemExpired = [k \in Keys |-> 0]
  /\ replayExpired = [p \in Pairs |-> 0]
  /\ effects = [r \in Reqs |-> {}]

(* ------------------------ persistence worker --------------------------- *)
JobIds == 1..MaxJobs

\* the row a job inserts into score_awards
AwardRow(j) == [user_id |-> j.user_id, action_type |-> j.action_type,
                points |-> j.points, idempotency_key |-> j.idempotency_key]

\* INSERT score_awards (ignore duplicates on unique idempotency_key)
InsertAward(rows, j) ==
  IF \E x \in rows : x.idempotency_key = j.idempotency_key
    THEN rows
    ELSE rows \cup {AwardRow(j)}

\* UPSERT user_scores.total += points
UpsertTotal(t, j) ==
  [u \in DOMAIN t \cup {j.user_id} |->
     IF u = j.user_id THEN (IF u \in DOMAIN t THEN t[u] ELSE 0) + j.points
     ELSE t[u]]

\* (mutation) one attempt more before the job is given up
ExhaustedLate(n) == n > MaxAttempts

\* move to DLQ after N attempts
Exhausted(n) == n >= MaxAttempts

RelayInit ==
  /\ scoreAwards = {}
  /\ userScores = <<>>
  /\ dlq = <<>>
  /\ attempts = [a \in JobIds |-> 0]
  /\ wpc = "idle"
  /\ written = {}

(* ------------------------ problem4: sum to n --------------------------- *)
SumFunctions == {"a", "b", "c", "d"}
NoResult == -1

\* for (let i = 1; i <= n; ++i) sum += i
RECURSIVE SumLoop(_, _, _)
SumLoop(i, n, sum) == IF i <= n THEN SumLoop(i + 1, n, sum + i) ELSE sum

sum_to_n_a(n) == IF n < 0 THEN 0 ELSE SumLoop(1, n, 0)

\* (n * (n + 1)) / 2: the product of two consecutive integers is even, the
\* division is exact
sum_to_n_b(n) == IF n < 0 THEN 0 ELSE (n * (n + 1)) \div 2

RECURSIVE sum_to_n_c(_)
sum_to_n_c(n) == IF n <= 0 THEN 0 ELSE n + sum_to_n_c(n - 1)

\* (mutation) the callback returns the 0-based index itself
ArrayFromIndex(n) == [k \in 1..n |-> k - 1]

\* Array.from({ length: n }, (_, i) => i + 1): element k (1-based here) is
\* made from the 0-based index i = k - 1
ArrayFrom(n) == [k \in 1..n |-> (k - 1) + 1]

\* .reduce((sum, num) => sum + num, 0): a left fold from 0
RECURSIVE Reduce(_, _)
Reduce(arr, sum) == IF arr = <<>> THEN sum ELSE Reduce(Tail(arr), sum + Head(arr))

sum_to_n_d(n) == IF n < 0 THEN 0 ELSE Reduce(ArrayFrom(n), 0)

SumIdle ==
  /\ sumN = 0
  /\ sumOut = [f \in SumFunctions |-> NoResult]

(* ---------------- problem5: rate limits, tokens, handlers -------------- *)
\* RATE_LIMIT_TIERS.*.maxRequests
ANONYMOUS_maxRequests == 100
WRITE_OPERATIONS_maxRequests == 50
AUTH_maxRequests == 20

\* express-rate-limit counts the request and blocks it when the count of
\* the window exceeds max; counts beyond max + 1 are not told apart
Counted(n, max) == IF n > max THEN n ELSE n + 1

\* (mutation) one request more than max is let through
BlockedLate(n, max) == Counted(n, max) > max + 1

Blocked(n, max) == Counted(n, max) > max

\* rateLimitHandler
TooMany == [status |-> 429, error |-> "Rate limit exceeded"]

Missing == ""
NoToken == 0
BadToken == -1
NoUser == 0
NaN == -1

\* jwt.verify(token, JWT_SECRET): a token signed for user id t is the
\* number t; anything else does not verify
verifyToken(t) == t > 0

\* findOne({ where: { id: decoded.userId, isActive: true } })
FindUserById(users, id) == IF id \in 1..Len(users) THEN id ELSE NoUser

\* (mutation) the check of optionalAuth: the request goes on in any case
authenticateTokenOptional(t, users) ==
  [status |-> 0, error |-> None,
   user |-> IF verifyToken(t) THEN FindUserById(users, t) ELSE NoUser]

\* authenticateToken: status 0 stands for next()
authenticateToken(t, users) ==
  IF t = NoToken
    THEN [status |-> 401, error |-> "Access token required", user |-> NoUser]
  ELSE IF ~verifyToken(t)
    THEN [status |-> 401, error |-> "Invalid token", user |-> NoUser]
  ELSE IF FindUserById(users, t) = NoUser
    THEN [status |-> 401, error |-> "Invalid token or user not found", user |-> NoUser]
  ELSE [status |-> 0, error |-> None, user |-> FindUserById(users, t)]

\* req.params.id: the digits the segment starts with (0 for none) and the rest
BookIds == 1..MaxBookId
NoParam == <<0, "">>
Params == {<<i, "">> : i \in BookIds} \cup {<<0, "abc">>}

\* parseInt(req.params.id): the leading digits, NaN when there are none
ParseInt(p) == IF p[1] = 0 THEN NaN ELSE p[1]

\* (mutation) only the title is required
RequiredTitleOnly(b) == b.title # Missing

\* !title || !author: an absent or empty field is falsy
RequiredPresent(b) == b.title # Missing /\ b.author # Missing

\* (mutation) the lookup finds a book under every id
FindBookAny(bks, id) == TRUE

\* bookRepository.findOne({ where: { id } })
FindBook(bks, id) == id \in DOMAIN bks

\* year of a body that has none
NoYear == 0

\* (mutation) the year of the body is not stored
SaveBookNoYear(bks, id, b) ==
  [i \in DOMAIN bks \cup {id} |->
     IF i = id THEN [title |-> b.title, author |-> b.author, year |-> NoYear]
     ELSE bks[i]]

\* bookRepository.save(book): the row of the book's id is written
SaveBook(bks, id, b) ==
  [i \in DOMAIN bks \cup {id} |->
     IF i = id THEN [title |-> b.title, author |-> b.author, year |-> b.year]
     ELSE bks[i]]

\* bookRepository.remove(book)
RemoveBook(bks, id) == [i \in DOMAIN bks \ {id} |-> bks[i]]

\* email.toLowerCase()
ToLowerCase(e) == IF e = "A@x.io" THEN "a@x.io" ELSE e

\* findOne({ where: { email } }): the address as sent, compared exactly
LookupKey(e) == e

\* /^[^\s@]+@[^\s@]+\.[^\s@]+$/ over the addresses clients send
EmailRegexTest(e) == e \in {"a@x.io", "A@x.io", "b@x.io"}

\* userRepository.findOne({ where: { email } })
FindUserByEmail(users, e) == \E i \in 1..Len(users) : users[i].email = LookupKey(e)

(* ------- problem5: accounts, middleware in the order of index.ts ------- *)
USER_maxRequests == 500
ADMIN_maxRequests == 2000
SENSITIVE_max == 10
\* res.statusCode of a response nothing has been written to yet
DefaultStatusCode == 200
ExpiredToken == -2
\* a token signed for a user id that is not in the users table
StaleToken == 4

\* the users table: ids 1..3, the row the handlers read and write
AccountIds == 1..3
Passwords == {"password123", "newpassword123", "wrongpassword", "123"}
StrLen(p) ==
  CASE p = "" -> 0
    [] p = "123" -> 3
    [] p = "password123" -> 11
    [] p = "newpassword123" -> 14
    [] p = "wrongpassword" -> 13
    [] OTHER -> 12

\* User: the password column holds the bcrypt hash the entity's hooks
\* compute of the plain password assigned before a save
HashPassword(p) == <<"bcrypt", p>>
\* user.comparePassword(candidate)
comparePassword(stored, candidate) == stored = HashPassword(candidate)

AccountEmail(id) == CASE id = 1 -> "a@x.io" [] id = 2 -> "admin@x.io" [] OTHER -> "b@x.io"
SeedAccounts ==
  [id \in AccountIds |->
     [email |-> AccountEmail(id),
      role |-> IF id = 2 THEN "admin" ELSE "user",
      isActive |-> id # 3,
      password |-> HashPassword("password123")]]

\* findOne({ where: { id: decoded.userId, isActive: true } })
FindActiveUser(accts, id) ==
  IF id \in DOMAIN accts /\ accts[id].isActive THEN id ELSE NoUser
\* findOne({ where: { email: email.toLowerCase() } })
FindAccountByEmail(accts, e) ==
  IF \E id \in DOMAIN accts : accts[id].email = ToLowerCase(e)
    THEN CHOOSE id \in DOMAIN accts : accts[id].email = ToLowerCase(e)
    ELSE NoUser

\* the request as the middleware chain sees it: req.user, the response
\* written so far and the stores the chain reads and writes
NewContext(h, s, accts) ==
  [user |-> NoUser, statusCode |-> DefaultStatusCode, error |-> None, ended |-> FALSE,
   tier |-> None, remaining |-> -1, events |-> {}, hits |-> h, sensitive |-> s,
   accounts |-> accts, handler |-> FALSE, passedAuthLimit |-> FALSE,
   authSends |-> 0, authNexts |-> 0, returned |-> FALSE]

\* res.status(status).json({ error })
Send(c, status, why) == [c EXCEPT !.statusCode = status, !.error = why, !.ended = TRUE]

\* logSecurityEvents: reads res.statusCode when the middleware runs
logSecurityEvents(c, q) ==
  IF c.ended THEN c
  ELSE [c EXCEPT !.events =
          @ \cup (IF q.path = "/api/auth/login" /\ c.statusCode = 401
                    THEN {"failed_login_attempt"} ELSE {})
            \cup (IF q.path = "/api/auth/login" /\ c.statusCode = 200
                    THEN {"successful_login"} ELSE {})]

\* addRateLimitHeaders: X-Rate-Limit-Tier from req.user when the middleware runs
addRateLimitHeaders(c) ==
  IF c.ended THEN c
  ELSE [c EXCEPT !.tier = IF c.user = NoUser THEN "anonymous"
                          ELSE IF c.accounts[c.user].role = "admin" THEN "admin"
                          ELSE "user"]

\* createSkipFunction(allowAdminBypass)
createSkipFunction(allowAdminBypass, c) ==
  IF ~allowAdminBypass THEN FALSE
  ELSE c.user # NoUser /\ c.accounts[c.user].role = "admin"

\* max of createAdaptiveRateLimit
AdaptiveMax(c) ==
  IF c.user # NoUser
    THEN IF c.accounts[c.user].role = "admin" THEN ADMIN_maxRequests ELSE USER_maxRequests
    ELSE ANONYMOUS_maxRequests

\* RateLimit-Remaining of standardHeaders
Remaining(n, max) == IF n > max THEN 0 ELSE max - n

\* a limiter of express-rate-limit whose window holds n requests: the
\* request is counted, RateLimit-Remaining is set, and over max the
\* handler answers 429
Limited(c, n, max) ==
  LET d == [c EXCEPT !.remaining = Remaining(Counted(n, max), max)]
  IN  IF Blocked(n, max) THEN Send(d, TooMany.status, TooMany.error) ELSE d

\* rateLimiters.auth
AuthLimiter(c) ==
  IF c.ended THEN c
  ELSE LET d == Limited(c, c.hits.auth, AUTH_maxRequests)
       IN  [d EXCEPT !.hits.auth = Counted(@, AUTH_maxRequests),
                     !.passedAuthLimit = ~d.ended]

\* rateLimiters.general
GeneralLimiter(c) ==
  IF c.ended THEN c
  ELSE [Limited(c, c.hits.general, AdaptiveMax(c))
          EXCEPT !.hits.general = Counted(@, AdaptiveMax(c))]

\* rateLimiters.writeOperations
WriteLimiter(c) ==
  IF c.ended \/ createSkipFunction(TRUE, c) THEN c
  ELSE [Limited(c, c.hits.write, WRITE_OPERATIONS_maxRequests)
          EXCEPT !.hits.write = Counted(@, WRITE_OPERATIONS_maxRequests)]

\* rateLimiters.sensitive
SensitiveLimiter(c) ==
  IF c.ended THEN c
  ELSE [Limited(c, c.sensitive, SENSITIVE_max)
          EXCEPT !.sensitive = Counted(@, SENSITIVE_max)]

\* (mutation) the return after the 401 of a missing token is left out
ReturnMissing(c) == c

\* return; of a middleware that has answered
Return(c) == [c EXCEPT !.returned = TRUE]

\* a response authenticateToken sends
AuthSend(c, status, why) == [Send(c, status, why) EXCEPT !.authSends = @ + 1]

\* the catch block of authenticateToken
AuthCatch(c, thrown) ==
  IF thrown = "JsonWebTokenError" THEN AuthSend(c, 401, "Invalid token")
  ELSE IF thrown = "TokenExpiredError" THEN AuthSend(c, 401, "Token expired")
  ELSE AuthSend(c, 500, "Authentication error")

\* what jwt.verify throws: TokenExpiredError is a JsonWebTokenError, so
\* the first instanceof of the catch block takes both
VerifyThrows(t) == IF verifyToken(t) THEN None ELSE "JsonWebTokenError"

\* the try block of authenticateToken after the token was read
AuthTry(c, q) ==
  IF c.returned THEN c
  ELSE IF VerifyThrows(q.token) # None THEN AuthCatch(c, VerifyThrows(q.token))
  ELSE IF q.db = "fails" THEN AuthCatch(c, "Error")
  ELSE IF FindActiveUser(c.accounts, q.token) = NoUser
    THEN Return(AuthSend(c, 401, "Invalid token or user not found"))
  ELSE [c EXCEPT !.user = FindActiveUser(c.accounts, q.token), !.authNexts = @ + 1]

\* authenticateToken as it runs, statement by statement
authenticateTokenRun(c, q) ==
  IF c.ended THEN c
  ELSE AuthTry(IF q.token = NoToken
                 THEN Return(AuthSend(c, 401, "Access token required"))
                 ELSE c, q)

\* (mutation) requireRole lets every authenticated user through
requireRoleAny(c) == c

\* requireAdmin = requireRole([UserRole.ADMIN])
requireAdmin(c) ==
  IF c.ended THEN c
  ELSE IF c.user = NoUser THEN Send(c, 401, "Authentication required")
  ELSE IF c.accounts[c.user].role # "admin" THEN Send(c, 403, "Insufficient permissions")
  ELSE c

\* optionalAuth: req.user is set for a valid token, the chain goes on anyway
optionalAuth(c, q) ==
  IF c.ended THEN c
  ELSE IF q.token # NoToken /\ verifyToken(q.token) /\ q.db # "fails"
          /\ FindActiveUser(c.accounts, q.token) # NoUser
    THEN [c EXCEPT !.user = FindActiveUser(c.accounts, q.token)]
  ELSE c

\* the route handler body is entered
Handle(c) == [c EXCEPT !.handler = TRUE]

Request(path, token, db, email, password, newPassword) ==
  [path |-> path, token |-> token, db |-> db, email |-> email,
   password |-> password, newPassword |-> newPassword]

\* no request has been answered yet
NoAnswer ==
  [req |-> Request("none", NoToken, "ok", Missing, Missing, Missing), status |-> 0,
   error |-> None, tier |-> None, remaining |-> -1, handler |-> FALSE, events |-> {},
   authSends |-> 0, authNexts |-> 0, user |-> NoUser]

SessIdle ==
  /\ accounts = SeedAccounts
  /\ sensitive = 0
  /\ res = NoAnswer
  /\ window = 0
  /\ passed = 0

NoRequest == [method |-> "none", id |-> NoParam, token |-> NoToken,
              body |-> [title |-> Missing, author |-> Missing, year |-> NoYear]]
NoResponse == [req |-> NoRequest, status |-> 0, error |-> None]

ApiInit ==
  /\ books = <<>>
  /\ usersDb = <<>>
  /\ hits = [general |-> 0, write |-> 0, auth |-> 0]
  /\ served = 0
  /\ last = NoResponse
  /\ SessIdle

\* the other components at rest
ExtInit == RelayInit /\ SumIdle /\ ApiInit

NoSub == [state |-> "off", from |-> 0, cursor |-> 0, got |-> {}, gap |-> FALSE]

Init ==
  /\ AwardInit
  /\ incTarget = [c \in Callers |-> 1]
  /\ incDone = [c \in Callers |-> FALSE]
  /\ subs = [s \in Subscribers |-> NoSub]
  /\ ExtInit

Error(status, why) == [NoOut EXCEPT !.status = status, !.error = why]

(* --------------------- POST /v1/scores/award --------------------------- *)
\* A[Request Received]
Receive(r, q) ==
  /\ pc[r] = "Idle"
  /\ \A s \in Reqs : s < r => pc[s] # "Idle"
  /\ pc' = [pc EXCEPT ![r] = "Received"]
  /\ rq' = [rq EXCEPT ![r] = q]
  /\ UNCHANGED <<extVars, work, out, idem, replay, zset, mirror, log, nextSeq, queue,
                 awards, idemExpired, replayExpired, effects, incTarget, incDone, subs>>

\* B{JWT valid?} -- No --> 401
Authorize(r) ==
  /\ pc[r] = "Received"
  /\ IF JwtValid(rq[r])
       THEN pc' = [pc EXCEPT ![r] = "Authorized"] /\ out' = out
       ELSE /\ pc' = [pc EXCEPT ![r] = "Rejected"]
            /\ out' = [out EXCEPT ![r] = Error(401, "unauthorized")]
  /\ UNCHANGED <<extVars, rq, work, idem, replay, zset, mirror, log, nextSeq, queue,
                 awards, idemExpired, replayExpired, effects, incTarget, incDone, subs>>

\* C{Schema & action_type valid?} -- No --> 400/422
ResolveRule(r) ==
  /\ pc[r] = "Authorized"
  /\ IF RuleEnabled(rq[r].action_type)
       THEN pc' = [pc EXCEPT ![r] = "RuleResolved"] /\ out' = out
       ELSE /\ pc' = [pc EXCEPT ![r] = "Rejected"]
            /\ out' = [out EXCEPT ![r] = Error(400, "invalid_action")]
  /\ UNCHANGED <<extVars, rq, work, idem, replay, zset, mirror, log, nextSeq, queue,
                 awards, idemExpired, replayExpired, effects, incTarget, incDone, subs>>

\* D{Idempotency & replay?}, first key: the idempotency bucket.
\* A key that exists is answered 409, whether the hash differs (conflict)
\* or not (duplicate idempotency_key).
ReserveIdempotency(r) ==
  LET q == rq[r]
      reply == CheckAndReserve(idem, q.key, PayloadHash(q))
  IN  /\ pc[r] = "RuleResolved"
      /\ work' = [work EXCEPT ![r].idem = reply]
      /\ IF reply = "Fresh"
           THEN /\ idem' = [idem EXCEPT ![q.key] = PayloadHash(q)]
                /\ effects' = [effects EXCEPT ![r] = @ \cup {"idem"}]
                /\ pc' = [pc EXCEPT ![r] = "IdemReserved"]
                /\ out' = out
           ELSE /\ UNCHANGED <<extVars, idem, effects>>
                /\ pc' = [pc EXCEPT ![r] = "Rejected"]
                /\ out' = [out EXCEPT ![r] =
                             Error(409, IF reply = "Conflict" THEN "conflict"
                                        ELSE "duplicate")]
      /\ UNCHANGED <<extVars, rq, replay, zset, mirror, log, nextSeq, queue, awards,
                     idemExpired, replayExpired, incTarget, incDone, subs>>

\* D{Idempotency & replay?}, second key: the replay guard; duplicates 409.
\* D -- OK --> H[Compute points]
GuardReplay(r) ==
  LET q == rq[r]
      reply == CheckReplay(replay, q.user, q.action_id)
  IN  /\ pc[r] = "IdemReserved"
      /\ IF reply = "NotSeen"
           THEN /\ replay' = replay \cup {<<q.user, q.action_id>>}
                /\ effects' = [effects EXCEPT ![r] = @ \cup {"replay"}]
                /\ work' = [work EXCEPT ![r].points = LookupPoints(q.action_type)]
                /\ pc' = [pc EXCEPT ![r] = "DedupChecked"]
                /\ out' = out
           ELSE /\ UNCHANGED <<extVars, replay, effects, work>>
                /\ pc' = [pc EXCEPT ![r] = "Rejected"]
                /\ out' = [out EXCEPT ![r] = Error(409, "replay")]
      /\ UNCHANGED <<extVars, rq, idem, zset, mirror, log, nextSeq, queue, awards,
                     idemExpired, replayExpired, incTarget, incDone, subs>>

\* I[ZINCRBY Redis]: atomically increments the sorted set and mirrors the
\* total to user:{id}:score
UpdateScore(r) ==
  LET q == rq[r]
      z == ZIncrBy(zset, q.user, work[r].points)
  IN  /\ pc[r] = "DedupChecked"
      /\ zset' = z
      /\ mirror' = [mirror EXCEPT ![q.user] = @ + work[r].points]
      /\ work' = [work EXCEPT ![r].total = z[q.user]]
      /\ awards' = [awards EXCEPT ![<<q.user, q.action_id>>] = @ + 1]
      /\ effects' = [effects EXCEPT ![r] = @ \cup {"score"}]
      /\ pc' = [pc EXCEPT ![r] = "ScoreUpdated"]
      /\ UNCHANGED <<extVars, rq, out, idem, replay, log, nextSeq, queue, idemExpired, replayExpired,
                     incTarget, incDone, subs>>

\* J[PUBLISH update] {user_id, delta, new_total, rank}
PublishUpdate(r) ==
  LET q == rq[r]
      ev == [user_id |-> q.user, delta |-> work[r].points,
             new_total |-> work[r].total, rank |-> Rank(zset, q.user)]
  IN  /\ pc[r] = "ScoreUpdated"
      /\ log' = Publish(log, nextSeq, ev)
      /\ nextSeq' = nextSeq + 1
      /\ effects' = [effects EXCEPT ![r] = @ \cup {"event"}]
      /\ pc' = [pc EXCEPT ![r] = "Published"]
      /\ UNCHANGED <<extVars, rq, work, out, idem, replay, zset, mirror, queue, awards,
                     idemExpired, replayExpired, incTarget, incDone, subs>>

\* K[Enqueue persist job] persist({award_id, user_id, points, ...})
EnqueuePersist(r) ==
  LET q == rq[r]
  IN  /\ pc[r] = "Published"
      /\ queue' = Append(queue, [award_id |-> r, user_id |-> q.user,
                                 action_type |-> q.action_type,
                                 points |-> work[r].points,
                                 idempotency_key |-> q.key])
      /\ effects' = [effects EXCEPT ![r] = @ \cup {"job"}]
      /\ pc' = [pc EXCEPT ![r] = "Enqueued"]
      /\ UNCHANGED <<extVars, rq, work, out, idem, replay, zset, mirror, log, nextSeq,
                     awards, idemExpired, replayExpired, incTarget, incDone, subs>>

\* L[Return 200/202] {user_id, total, delta, rank, leaderboard_top}
Complete(r) ==
  /\ pc[r] = "Enqueued"
  /\ out' = [out EXCEPT ![r] = [status |-> 200, error |-> None,
                                total |-> work[r].total,
                                delta |-> work[r].points,
                                rank |-> Rank(zset, rq[r].user)]]
  /\ pc' = [pc EXCEPT ![r] = "Completed"]
  /\ UNCHANGED <<extVars, rq, work, idem, replay, zset, mirror, log, nextSeq, queue,
                 awards, idemExpired, replayExpired, effects, incTarget, incDone, subs>>

\* The handler stops between two steps (the process dies, the caller or a
\* backend times out): nothing is undone and no response is sent.
InFlight == {"Received", "Authorized", "RuleResolved", "IdemReserved",
             "DedupChecked", "ScoreUpdated", "Published", "Enqueued"}

Fail(r) ==
  /\ pc[r] \in InFlight
  /\ pc' = [pc EXCEPT ![r] = "Failed"]
  /\ UNCHANGED <<extVars, rq, work, out, idem, replay, zset, mirror, log, nextSeq,
                 queue, awards, idemExpired, replayExpired, effects, incTarget, incDone, subs>>

(* ------------------------------ TTLs ----------------------------------- *)
RECURSIVE SumOver(_, _)
SumOver(f, S) ==
  IF S = {} THEN 0
  ELSE LET x == CHOOSE y \in S : TRUE IN f[x] + SumOver(f, S \ {x})

\* the guard records whose TTL is followed to its end
ExpirableKeys == {"K1"}
ExpirablePairs == {<<1, "A1">>}

Expiries == SumOver(idemExpired, Keys) + SumOver(replayExpired, Pairs)

\* idemp:{key} ... EX 86400: the record is gone when its TTL has run out
ExpireIdempotency(k) ==
  /\ k \in ExpirableKeys
  /\ idem[k] # None
  /\ Expiries < MaxExpire
  /\ idem' = [idem EXCEPT ![k] = None]
  /\ idemExpired' = [idemExpired EXCEPT ![k] = @ + 1]
  /\ UNCHANGED <<extVars, pc, rq, work, out, replay, replayExpired, zset, mirror, log, nextSeq, queue,
                 awards, effects, incTarget, incDone, subs>>

\* action:{user}:{action_id} ... EX 604800
ExpireReplay(p) ==
  /\ p \in ExpirablePairs
  /\ p \in replay
  /\ Expiries < MaxExpire
  /\ replay' = replay \ {p}
  /\ replayExpired' = [replayExpired EXCEPT ![p] = @ + 1]
  /\ UNCHANGED <<extVars, pc, rq, work, out, idem, idemExpired, zset, mirror, log, nextSeq, queue,
                 awards, effects, incTarget, incDone, subs>>

Next ==
  \/ \E r \in Reqs, q \in Payloads : Receive(r, q)
  \/ \E r \in Reqs : Authorize(r)
  \/ \E r \in Reqs : ResolveRule(r)
  \/ \E r \in Reqs : ReserveIdempotency(r)
  \/ \E r \in Reqs : GuardReplay(r)
  \/ \E r \in Reqs : UpdateScore(r)
  \/ \E r \in Reqs : PublishUpdate(r)
  \/ \E r \in Reqs : EnqueuePersist(r)
  \/ \E r \in Reqs : Complete(r)
  \/ \E r \in Reqs : Fail(r)
  \/ \E k \in Keys : ExpireIdempotency(k)
  \/ \E p \in Pairs : ExpireReplay(p)

Spec == Init /\ [][Next]_vars

(* ------------------- the ranked score store alone ---------------------- *)
InitStore ==
  /\ AwardInit
  /\ incTarget \in [Callers -> StoreUsers]
  /\ incDone = [c \in Callers |-> FALSE]
  /\ subs = [s \in Subscribers |-> NoSub]
  /\ ExtInit

\* increment(user_id, +1): one ZINCRBY
StoreIncrement(c) ==
  /\ ~incDone[c]
  /\ zset' = ZIncrBy(zset, incTarget[c], 1)
  /\ incDone' = [incDone EXCEPT ![c] = TRUE]
  /\ UNCHANGED <<extVars, pc, rq, work, out, idem, replay, mirror, log, nextSeq, queue,
                 awards, idemExpired, replayExpired, effects, incTarget, subs>>

NextStore == \E c \in Callers : StoreIncrement(c)

SpecStore == InitStore /\ [][NextStore]_vars

(* ---------------- live updates: subscribers of the notifier ------------ *)
\* the sequence ids still retained
Retained(l) == {l[i].sequence_id : i \in 1..Len(l)}

\* (mutation) any id already issued resumes, retained or not
InWindowAnyPast(l, seq, from) == from < seq

\* A resume id is inside the retention window when every event after it is
\* still retained: it is the id of a retained event, or of the event just
\* before the oldest retained one.
InWindow(l, seq, from) ==
  /\ from < seq
  /\ \/ l = <<>> /\ from = seq - 1
     \/ l # <<>> /\ from >= l[1].sequence_id - 1

\* the sample event a score change publishes
SampleEvent == [user_id |-> 1, delta |-> 5, new_total |-> 5, rank |-> 1]

\* publish(event), as the coordinator's step 5 calls it
PublishEvent ==
  /\ nextSeq <= MaxEvents
  /\ log' = Publish(log, nextSeq, SampleEvent)
  /\ nextSeq' = nextSeq + 1
  /\ UNCHANGED <<extVars, pc, rq, work, out, idem, replay, zset, mirror, queue, awards,
                 idemExpired, replayExpired, effects, incTarget, incDone, subs>>

\* subscribe(fromSequenceId): delivery resumes just after an id inside the
\* window; for an id outside it the subscriber is told of the gap and goes
\* on from the oldest retained event
Subscribe(s, from) ==
  /\ subs[s].state = "off"
  /\ subs' = [subs EXCEPT ![s] =
       IF InWindow(log, nextSeq, from)
         THEN [state |-> "live", from |-> from, cursor |-> from,
               got |-> {}, gap |-> FALSE]
         ELSE [state |-> "live", from |-> from,
               cursor |-> IF log = <<>> THEN nextSeq - 1
                          ELSE log[1].sequence_id - 1,
               got |-> {}, gap |-> TRUE]]
  /\ UNCHANGED <<extVars, pc, rq, work, out, idem, replay, zset, mirror, log, nextSeq,
                 queue, awards, idemExpired, replayExpired, effects, incTarget,
                 incDone>>

\* the subscriber's cursor reads the next event of the log; a cursor the
\* window has moved past is told of the gap
Deliver(s) ==
  LET c == subs[s].cursor IN
  /\ subs[s].state = "live"
  /\ c + 1 < nextSeq
  /\ subs' = [subs EXCEPT ![s] =
       IF c + 1 \in Retained(log)
         THEN [@ EXCEPT !.cursor = c + 1, !.got = @ \cup {c + 1}]
         ELSE [@ EXCEPT !.cursor = log[1].sequence_id - 1, !.gap = TRUE]]
  /\ UNCHANGED <<extVars, pc, rq, work, out, idem, replay, zset, mirror, log, nextSeq,
                 queue, awards, idemExpired, replayExpired, effects, incTarget,
                 incDone>>

\* the caller disconnects
Disconnect(s) ==
  /\ subs[s].state = "live"
  /\ subs' = [subs EXCEPT ![s].state = "off"]
  /\ UNCHANGED <<extVars, pc, rq, work, out, idem, replay, zset, mirror, log, nextSeq,
                 queue, awards, idemExpired, replayExpired, effects, incTarget,
                 incDone>>

NextNotifier ==
  \/ PublishEvent
  \/ \E s \in Subscribers, from \in 0..MaxEvents : Subscribe(s, from)
  \/ \E s \in Subscribers : Deliver(s)
  \/ \E s \in Subscribers : Disconnect(s)

SpecNotifier == Init /\ [][NextNotifier]_vars

\* a connected subscriber's cursor keeps reading
FairNotifier == SpecNotifier /\ \A s \in Subscribers : WF_vars(Deliver(s))

(* --------------- persistence worker: consuming the queue --------------- *)
\* everything of the award endpoint but the queue
awardRest == <<pc, rq, work, out, idem, replay, zset, mirror, log, nextSeq,
               awards, idemExpired, replayExpired, effects>>

\* the award events handed to the worker; two of them carry one
\* idempotency key (a key is free again once its record has expired)
SampleJobs ==
  {[user_id |-> 1, action_type |-> "watch_video", points |-> 25, idempotency_key |-> "K1"],
   [user_id |-> 1, action_type |-> "share_link", points |-> 5, idempotency_key |-> "K2"],
   [user_id |-> 2, action_type |-> "watch_video", points |-> 25, idempotency_key |-> "K1"]}

JobsHanded == Len(queue) + Len(dlq) + Cardinality(written)

\* persist({award_id, user_id, points, ...}), as the award endpoint's step K
\* hands it over
EnqueueJob(s) ==
  /\ JobsHanded < MaxJobs
  /\ queue' = Append(queue, [award_id |-> JobsHanded + 1, user_id |-> s.user_id,
                             action_type |-> s.action_type, points |-> s.points,
                             idempotency_key |-> s.idempotency_key])
  /\ UNCHANGED <<awardRest, storeVars, subs, relayVars, sumVars, apiVars>>

\* On failure, retry with exponential backoff, move to DLQ after N attempts:
\* the job stays at the head of the queue until it is given up
RetryOrDeadLetter(j, n) ==
  /\ wpc' = "idle"
  /\ IF Exhausted(n)
       THEN dlq' = Append(dlq, j) /\ queue' = Tail(queue)
       ELSE UNCHANGED <<dlq, queue>>

\* an attempt starts with INSERT score_awards
InsertScoreAward ==
  /\ wpc = "idle" /\ queue # <<>>
  /\ LET j == Head(queue) IN
       /\ attempts' = [attempts EXCEPT ![j.award_id] = @ + 1]
       /\ scoreAwards' = InsertAward(scoreAwards, j)
  /\ wpc' = "inserted"
  /\ UNCHANGED <<awardRest, queue, storeVars, subs, userScores, dlq, written, sumVars, apiVars>>

\* the INSERT fails (database unavailable, timeout)
InsertFails ==
  /\ wpc = "idle" /\ queue # <<>>
  /\ LET j == Head(queue) IN
       /\ attempts' = [attempts EXCEPT ![j.award_id] = @ + 1]
       /\ RetryOrDeadLetter(j, attempts[j.award_id] + 1)
  /\ UNCHANGED <<awardRest, storeVars, subs, scoreAwards, userScores, written, sumVars, apiVars>>

\* UPSERT user_scores.total += points; the event is consumed
UpsertUserScore ==
  /\ wpc = "inserted"
  /\ LET j == Head(queue) IN
       /\ userScores' = UpsertTotal(userScores, j)
       /\ written' = written \cup {j}
  /\ queue' = Tail(queue)
  /\ wpc' = "idle"
  /\ UNCHANGED <<awardRest, storeVars, subs, scoreAwards, dlq, attempts, sumVars, apiVars>>

\* the UPSERT fails: the inserted row stays, the attempt is lost
UpsertFails ==
  /\ wpc = "inserted"
  /\ LET j == Head(queue) IN RetryOrDeadLetter(j, attempts[j.award_id])
  /\ UNCHANGED <<awardRest, storeVars, subs, scoreAwards, userScores, attempts,
                 written, sumVars, apiVars>>

WorkerStep == InsertScoreAward \/ InsertFails \/ UpsertUserScore \/ UpsertFails

NextRelay ==
  \/ \E s \in SampleJobs : EnqueueJob(s)
  \/ InsertScoreAward
  \/ InsertFails
  \/ UpsertUserScore
  \/ UpsertFails

SpecRelay == Init /\ [][NextRelay]_vars

\* the worker keeps consuming its queue
FairRelay == SpecRelay /\ WF_vars(WorkerStep)

(* ------------------ problem4: the four implementations ----------------- *)
InitSum ==
  /\ AwardInit
  /\ incTarget = [c \in Callers |-> 1]
  /\ incDone = [c \in Callers |-> FALSE]
  /\ subs = [s \in Subscribers |-> NoSub]
  /\ RelayInit /\ ApiInit
  /\ sumN \in -MaxN..MaxN
  /\ sumOut = [f \in SumFunctions |-> NoResult]

Returned(f, v) ==
  /\ sumOut[f] = NoResult
  /\ sumOut' = [sumOut EXCEPT ![f] = v]
  /\ UNCHANGED <<awardVars, storeVars, subs, relayVars, sumN, apiVars>>

CallA == Returned("a", sum_to_n_a(sumN))
CallB == Returned("b", sum_to_n_b(sumN))
CallC == Returned("c", sum_to_n_c(sumN))
CallD == Returned("d", sum_to_n_d(sumN))

NextSum == CallA \/ CallB \/ CallC \/ CallD

SpecSum == InitSum /\ [][NextSum]_vars

(* ------------------- problem5: /api/books and /api/auth ---------------- *)
\* The data source is better-sqlite3, whose calls are synchronous: the
\* awaits of a handler resolve without the event loop taking another
\* request, so a request is handled in one step, middleware included.
WriteMethods == {"POST", "PUT", "DELETE"}
Tokens == {NoToken, BadToken, 1}
BookBodies ==
  {[title |-> "T1", author |-> "Au", year |-> 2024],
   [title |-> "T2", author |-> "Au", year |-> NoYear],
   [title |-> Missing, author |-> "Au", year |-> 2024],
   [title |-> "T1", author |-> Missing, year |-> 2024]}
NoBody == [title |-> Missing, author |-> Missing, year |-> NoYear]

\* the requests clients send to /api/books
BookRequests ==
  {[method |-> "LIST", id |-> NoParam, token |-> NoToken, body |-> NoBody]}
  \cup {[method |-> "GET", id |-> p, token |-> NoToken, body |-> NoBody] : p \in Params}
  \cup {[method |-> "POST", id |-> NoParam, token |-> t, body |-> b] :
          t \in Tokens, b \in BookBodies}
  \cup {[method |-> "PUT", id |-> p, token |-> t, body |-> b] :
          p \in Params, t \in Tokens, b \in BookBodies \ {[title |-> "T1", author |-> "Au", year |-> 2024]}}
  \cup {[method |-> "DELETE", id |-> p, token |-> t, body |-> NoBody] :
          p \in Params, t \in Tokens}

Answer(status, why) == [status |-> status, error |-> why]

\* app.use("/api/books", rateLimiters.general, ...) and, on the write
\* routes, rateLimiters.writeOperations, authenticateToken: the answer of
\* the middleware that ends the request, status 0 when the handler is
\* reached.  req.user is not set yet when the limiters run, so the general
\* limit is the anonymous one.
BooksGate(q) ==
  IF Blocked(hits.general, ANONYMOUS_maxRequests) THEN TooMany
  ELSE IF q.method \in WriteMethods
    THEN IF Blocked(hits.write, WRITE_OPERATIONS_maxRequests) THEN TooMany
         ELSE LET a == authenticateToken(q.token, usersDb)
              IN  Answer(a.status, a.error)
  ELSE Answer(0, None)

BooksHits(q) ==
  [hits EXCEPT
     !.general = Counted(@, ANONYMOUS_maxRequests),
     !.write = IF q.method \in WriteMethods
                  /\ ~Blocked(hits.general, ANONYMOUS_maxRequests)
                 THEN Counted(@, WRITE_OPERATIONS_maxRequests) ELSE @]

\* the request is answered and the books are left as bks
Serve(q, resp, bks) ==
  /\ served < MaxServed
  /\ served' = served + 1
  /\ hits' = BooksHits(q)
  /\ last' = [req |-> q, status |-> resp.status, error |-> resp.error]
  /\ books' = bks
  /\ UNCHANGED <<usersDb, sessVars, awardVars, storeVars, subs, relayVars, sumVars>>

\* router.post("/"); the generated id is one no stored book has
CreateBook(q) ==
  /\ q.method = "POST"
  /\ LET g == BooksGate(q) IN
       IF g.status # 0 THEN Serve(q, g, books)
       ELSE IF ~RequiredPresent(q.body)
         THEN Serve(q, Answer(400, "Title and author are required"), books)
       ELSE \E id \in BookIds \ DOMAIN books :
              Serve(q, Answer(201, None), SaveBook(books, id, q.body))

\* router.get("/")
GetBooks(q) ==
  /\ q.method = "LIST"
  /\ LET g == BooksGate(q) IN
       IF g.status # 0 THEN Serve(q, g, books)
       ELSE Serve(q, Answer(200, None), books)

\* router.get("/:id")
GetBook(q) ==
  /\ q.method = "GET"
  /\ LET g == BooksGate(q)
         id == ParseInt(q.id)
     IN  IF g.status # 0 THEN Serve(q, g, books)
         ELSE IF id = NaN THEN Serve(q, Answer(400, "Invalid book ID"), books)
         ELSE IF ~FindBook(books, id) THEN Serve(q, Answer(404, "Book not found"), books)
         ELSE Serve(q, Answer(200, None), books)

\* router.put("/:id")
UpdateBook(q) ==
  /\ q.method = "PUT"
  /\ LET g == BooksGate(q)
         id == ParseInt(q.id)
     IN  IF g.status # 0 THEN Serve(q, g, books)
         ELSE IF id = NaN THEN Serve(q, Answer(400, "Invalid book ID"), books)
         ELSE IF ~RequiredPresent(q.body)
           THEN Serve(q, Answer(400, "Title and author are required"), books)
         ELSE IF ~FindBook(books, id) THEN Serve(q, Answer(404, "Book not found"), books)
         ELSE Serve(q, Answer(200, None), SaveBook(books, id, q.body))

\* router.delete("/:id")
DeleteBook(q) ==
  /\ q.method = "DELETE"
  /\ LET g == BooksGate(q)
         id == ParseInt(q.id)
     IN  IF g.status # 0 THEN Serve(q, g, books)
         ELSE IF id = NaN THEN Serve(q, Answer(400, "Invalid book ID"), books)
         ELSE IF ~FindBook(books, id) THEN Serve(q, Answer(404, "Book not found"), books)
         ELSE Serve(q, Answer(200, "Book deleted successfully"), RemoveBook(books, id))

\* the service as the requests find it: the windows of the limiters are
\* fresh or one request short of their limits, and one user may have
\* registered (the holder of token 1)
InitBooks ==
  /\ AwardInit
  /\ incTarget = [c \in Callers |-> 1]
  /\ incDone = [c \in Callers |-> FALSE]
  /\ subs = [s \in Subscribers |-> NoSub]
  /\ RelayInit /\ SumIdle
  /\ books = <<>>
  /\ usersDb \in {<<>>, <<[email |-> "a@x.io"]>>}
  /\ hits \in {[general |-> 0, write |-> 0, auth |-> 0],
               [general |-> ANONYMOUS_maxRequests - 1,
                write |-> WRITE_OPERATIONS_maxRequests - 1, auth |-> 0]}
  /\ served = 0
  /\ last = NoResponse
  /\ SessIdle

NextBooks ==
  \/ \E q \in BookRequests : CreateBook(q)
  \/ \E q \in BookRequests : GetBooks(q)
  \/ \E q \in BookRequests : GetBook(q)
  \/ \E q \in BookRequests : UpdateBook(q)
  \/ \E q \in BookRequests : DeleteBook(q)

SpecBooks == InitBooks /\ [][NextBooks]_vars

\* the register requests clients send: password stands for its length
RegisterBodies ==
  {[email |-> e, password |-> 8, firstName |-> "John", lastName |-> "Doe"] :
     e \in {"a@x.io", "A@x.io", "b@x.io", "nope"}}
  \cup {[email |-> "a@x.io", password |-> 3, firstName |-> "John", lastName |-> "Doe"],
        [email |-> "a@x.io", password |-> 8, firstName |-> Missing, lastName |-> Missing],
        [email |-> Missing, password |-> 8, firstName |-> "John", lastName |-> "Doe"]}

RegisterRequest(b) == [method |-> "REGISTER", id |-> NoParam, token |-> NoToken, body |-> b]

\* the request is answered and the users are left as us
ServeAuth(b, resp, us) ==
  /\ served < MaxServed
  /\ served' = served + 1
  /\ hits' = [hits EXCEPT !.auth = Counted(@, AUTH_maxRequests)]
  /\ last' = [req |-> RegisterRequest(b), status |-> resp.status, error |-> resp.error]
  /\ usersDb' = us
  /\ UNCHANGED <<books, sessVars, awardVars, storeVars, subs, relayVars, sumVars>>

\* app.use("/api/auth", rateLimiters.auth, ...), router.post("/register").
\* The user is stored under email.toLowerCase().  Whether the users table
\* refuses a second row with a stored address is the User entity's matter:
\* the save then either throws (caught: 500) or stores the second row.
Register(b) ==
  IF Blocked(hits.auth, AUTH_maxRequests) THEN ServeAuth(b, TooMany, usersDb)
  ELSE IF b.email = Missing \/ b.password = 0 \/ b.firstName = Missing \/ b.lastName = Missing
    THEN ServeAuth(b, Answer(400, "Email, password, first name, and last name are required"),
                   usersDb)
  ELSE IF b.password < 6
    THEN ServeAuth(b, Answer(400, "Password must be at least 6 characters long"), usersDb)
  ELSE IF ~EmailRegexTest(b.email)
    THEN ServeAuth(b, Answer(400, "Invalid email format"), usersDb)
  ELSE IF FindUserByEmail(usersDb, b.email)
    THEN ServeAuth(b, Answer(400, "User with this email already exists"), usersDb)
  ELSE \/ ServeAuth(b, Answer(201, None), Append(usersDb, [email |-> ToLowerCase(b.email)]))
       \/ /\ \E i \in 1..Len(usersDb) : usersDb[i].email = ToLowerCase(b.email)
          /\ ServeAuth(b, Answer(500, "Registration failed"), usersDb)

InitAuth ==
  /\ AwardInit
  /\ incTarget = [c \in Callers |-> 1]
  /\ incDone = [c \in Callers |-> FALSE]
  /\ subs = [s \in Subscribers |-> NoSub]
  /\ RelayInit /\ SumIdle
  /\ books = <<>>
  /\ usersDb = <<>>
  /\ hits \in {[general |-> 0, write |-> 0, auth |-> 0],
               [general |-> 0, write |-> 0, auth |-> AUTH_maxRequests - 1]}
  /\ served = 0
  /\ last = NoResponse
  /\ SessIdle

NextAuth == \E b \in RegisterBodies : Register(b)

SpecAuth == InitAuth /\ [][NextAuth]_vars

(* --------- problem5: /api/auth, /api/books, /api/admin as mounted ------ *)
SessionTokens == {NoToken, BadToken, ExpiredToken, 1, 2, 3, StaleToken}
AdminPaths == {"/api/admin/rate-limit/status", "/api/admin/rate-limit/config",
               "/api/admin/health"}

LoginRequests ==
  {Request("/api/auth/login", NoToken, "ok", "a@x.io", p, Missing) :
     p \in {"password123", "newpassword123", "wrongpassword"}}
  \cup {Request("/api/auth/login", NoToken, "ok", e, "password123", Missing) :
          e \in {"A@x.io", "b@x.io", "nobody@x.io", Missing}}
  \cup {Request("/api/auth/login", NoToken, "fails", "a@x.io", "password123", Missing)}

ChangePasswordRequests ==
  {Request("/api/auth/change-password", 1, "ok", Missing, p, n) :
     p \in {"password123", "newpassword123", "wrongpassword"},
     n \in {"newpassword123", "123"}}
  \cup {Request("/api/auth/change-password", NoToken, "ok", Missing,
                "password123", "newpassword123")}

ProfileRequests ==
  {Request("/api/auth/profile", t, "ok", Missing, Missing, Missing) : t \in SessionTokens}
  \cup {Request("/api/auth/profile", 1, "fails", Missing, Missing, Missing)}

BookListRequests ==
  {Request("/api/books", t, "ok", Missing, Missing, Missing) : t \in {NoToken, BadToken, 1, 2}}

BookPostRequests ==
  {Request("POST /api/books", t, "ok", Missing, Missing, Missing) : t \in {NoToken, 1, 2}}

AdminRequests ==
  {Request(p, t, "ok", Missing, Missing, Missing) :
     p \in AdminPaths, t \in {NoToken, 1, 2}}
  \cup {Request("/api/admin/health", t, "ok", Missing, Missing, Missing) :
          t \in {BadToken, 3}}
  \cup {Request("/api/admin/health", 2, "fails", Missing, Missing, Missing)}

\* app.use(logSecurityEvents); app.use(addRateLimitHeaders): both run
\* before the limiter and the router of the path
Common(q) ==
  addRateLimitHeaders(logSecurityEvents(NewContext(hits, sensitive, accounts), q))

\* router.post("/login")
loginHandler(c, q) ==
  IF c.ended THEN c
  ELSE LET h == Handle(c)
           u == FindAccountByEmail(c.accounts, q.email)
       IN  IF q.email = Missing \/ q.password = Missing
             THEN Send(h, 400, "Email and password are required")
           ELSE IF q.db = "fails" THEN Send(h, 500, "Login failed")
           ELSE IF u = NoUser THEN Send(h, 401, "Invalid credentials")
           ELSE IF ~c.accounts[u].isActive THEN Send(h, 401, "Account is deactivated")
           ELSE IF ~comparePassword(c.accounts[u].password, q.password)
             THEN Send(h, 401, "Invalid credentials")
           ELSE Send(h, 200, None)

\* (mutation) the length of the new password is not checked
TooShortNever(p) == FALSE

\* newPassword.length < 6
TooShort(p) == StrLen(p) < 6

\* router.post("/change-password"): the handler body
changePasswordHandler(c, q) ==
  IF c.ended THEN c
  ELSE LET h == Handle(c) IN
       IF q.password = Missing \/ q.newPassword = Missing
         THEN Send(h, 400, "Current password and new password are required")
       ELSE IF TooShort(q.newPassword)
         THEN Send(h, 400, "New password must be at least 6 characters long")
       ELSE IF ~comparePassword(c.accounts[c.user].password, q.password)
         THEN Send(h, 401, "Current password is incorrect")
       ELSE Send([h EXCEPT !.accounts[c.user].password = HashPassword(q.newPassword)],
                 200, "Password changed successfully")

\* a handler body that answers with the given status
Answering(c, status) == IF c.ended THEN c ELSE Send(Handle(c), status, None)

\* the response goes out and the stores are left as the chain left them
Respond(q, c, bks) ==
  /\ served < MaxServed
  /\ served' = served + 1
  /\ hits' = c.hits
  /\ sensitive' = c.sensitive
  /\ accounts' = c.accounts
  /\ passed' = IF c.passedAuthLimit THEN passed + 1 ELSE passed
  /\ res' = [req |-> q, status |-> c.statusCode, error |-> c.error, tier |-> c.tier,
             remaining |-> c.remaining, handler |-> c.handler, events |-> c.events,
             authSends |-> c.authSends, authNexts |-> c.authNexts, user |-> c.user]
  /\ books' = bks
  /\ UNCHANGED <<usersDb, last, window, awardVars, storeVars, subs, relayVars, sumVars>>

\* POST /api/auth/login
PostLogin(q) ==
  /\ q \in LoginRequests
  /\ Respond(q, loginHandler(AuthLimiter(Common(q)), q), books)

\* POST /api/auth/change-password
PostChangePassword(q) ==
  /\ q \in ChangePasswordRequests
  /\ Respond(q, changePasswordHandler(
                  authenticateTokenRun(SensitiveLimiter(AuthLimiter(Common(q))), q), q),
             books)

\* GET /api/auth/profile
GetProfile(q) ==
  /\ q \in ProfileRequests
  /\ Respond(q, Answering(authenticateTokenRun(AuthLimiter(Common(q)), q), 200), books)

\* GET /api/books with or without a token
GetBooksAs(q) ==
  /\ q \in BookListRequests
  /\ Respond(q, Answering(optionalAuth(GeneralLimiter(Common(q)), q), 200), books)

\* POST /api/books with title, author and year
PostBookAs(q) ==
  /\ q \in BookPostRequests
  /\ LET c == Answering(authenticateTokenRun(WriteLimiter(GeneralLimiter(Common(q))), q), 201)
     IN  IF c.handler
           THEN \E id \in BookIds \ DOMAIN books :
                  Respond(q, c, SaveBook(books, id, [title |-> "T1", author |-> "Au", year |-> 2024]))
           ELSE Respond(q, c, books)

\* GET /api/admin/...
GetAdmin(q) ==
  /\ q \in AdminRequests
  /\ Respond(q, Answering(requireAdmin(authenticateTokenRun(SensitiveLimiter(Common(q)), q)),
                          200), books)

\* the window of rateLimiters.auth ends: its count starts again
AuthWindowReset ==
  /\ window < MaxWindows
  /\ window' = window + 1
  /\ hits' = [hits EXCEPT !.auth = 0]
  /\ passed' = 0
  /\ UNCHANGED <<books, usersDb, served, last, accounts, sensitive, res,
                 awardVars, storeVars, subs, relayVars, sumVars>>

\* the service with its seeded users; the limiter windows are fresh, or
\* the general one, or the others, are one request short of their limits
InitApi ==
  /\ AwardInit
  /\ incTarget = [c \in Callers |-> 1]
  /\ incDone = [c \in Callers |-> FALSE]
  /\ subs = [s \in Subscribers |-> NoSub]
  /\ RelayInit /\ SumIdle
  /\ books = <<>>
  /\ usersDb = <<>>
  /\ served = 0
  /\ last = NoResponse
  /\ accounts = SeedAccounts
  /\ \/ hits = [general |-> 0, write |-> 0, auth |-> 0] /\ sensitive = 0
     \/ hits = [general |-> ANONYMOUS_maxRequests - 1, write |-> 0, auth |-> 0]
          /\ sensitive = 0
     \/ hits = [general |-> 0, write |-> WRITE_OPERATIONS_maxRequests - 1,
                auth |-> AUTH_maxRequests - 1]
          /\ sensitive = SENSITIVE_max - 1
  /\ passed = hits.auth
  /\ window = 0
  /\ res = NoAnswer

NextApi ==
  \/ \E q \in LoginRequests : PostLogin(q)
  \/ \E q \in ChangePasswordRequests : PostChangePassword(q)
  \/ \E q \in ProfileRequests : GetProfile(q)
  \/ \E q \in BookListRequests : GetBooksAs(q)
  \/ \E q \in BookPostRequests : PostBookAs(q)
  \/ \E q \in AdminRequests : GetAdmin(q)
  \/ AuthWindowReset

SpecApi == InitApi /\ [][NextApi]_vars

(* =========================== properties =============================== *)
Applied(r) == "score" \in effects[r]
Answered(r) == pc[r] \in {"Completed", "Rejected"}
PairOf(r) == <<rq[r].user, rq[r].action_id>>
Sent(r) == pc[r] # "Idle"

\* C1 as stated: after any sequence of award requests the store has been
\* incremented at most once for each (user_id, action_id) pair.
C1_OncePerPairEver == \A p \in Pairs : awards[p] <= 1

\* the step that changed a total is the ZINCRBY of one request past the
\* dedup checks, by the rule-table points of its action type
C1_OnlyIncrementChangesTotals ==
  (zset' # zset \/ mirror' # mirror) =>
    \E r \in Reqs :
      /\ pc[r] = "DedupChecked" /\ pc'[r] = "ScoreUpdated"
      /\ zset' = ZIncrBy(zset, rq[r].user, Rules[rq[r].action_type])
      /\ \A u \in Users : u # rq[r].user => mirror'[u] = mirror[u]

\* C1 (amended): the store is incremented at most once for each
\* (user_id, action_id) pair per retention period of the pair's replay
\* record -- once, and once more for each time the record expired -- and
\* the increment step is the only transition that changes any total.
C1_OncePerPairPerWindow ==
  /\ [](\A p \in Pairs : awards[p] <= 1 + replayExpired[p])
  /\ [][C1_OnlyIncrementChangesTotals]_vars

\* C1 witness: two requests for one pair, one applied and the other
\* turned away by the replay guard
C1_Witness ==
  \E r1, r2 \in Reqs :
    /\ r1 # r2 /\ PairOf(r1) = PairOf(r2)
    /\ Applied(r1) /\ out[r2].error = "replay"

\* no request is in flight, and none stopped after its increment
Quiet ==
  \A r \in Reqs :
    /\ pc[r] \in {"Idle", "Completed", "Rejected", "Failed"}
    /\ pc[r] = "Failed" => ~Applied(r)

\* the distinct actions awarded to a user, and their rule-table points
AwardedActions(u) ==
  {rq[r].action_id : r \in {x \in Reqs : pc[x] = "Completed" /\ rq[x].user = u}}

ActionPoints ==
  [a \in ActionIds |-> Rules[(CHOOSE c \in Completions : c[1] = a)[2]]]

SameSubmission(r1, r2) ==
  /\ r1 # r2 /\ Sent(r1) /\ Sent(r2)
  /\ rq[r1] = rq[r2] /\ JwtValid(rq[r1]) /\ rq[r1].action_type \in DOMAIN Rules

KeyReused(r) ==
  /\ pc[r] = "RuleResolved"
  /\ idem[rq[r].key] # None
  /\ idem[rq[r].key] # PayloadHash(rq[r])

C4_ConflictStep ==
  \A r \in Reqs :
    (KeyReused(r) /\ pc'[r] \notin {"RuleResolved", "Failed"}) =>
      /\ pc'[r] = "Rejected"
      /\ out'[r].status = 409 /\ out'[r].error = "conflict"
      /\ UNCHANGED <<zset, mirror, log, nextSeq, queue>>

\* C4: a request whose idempotency key is already recorded with a different
\* payload fingerprint ends in Conflict (409): it is never executed, the
\* totals are unchanged, and it publishes no event and queues no job.
C4_KeyReuseConflicts ==
  /\ [][C4_ConflictStep]_vars
  /\ [](\A r \in Reqs :
          out[r].error = "conflict" =>
            /\ pc[r] = "Rejected"
            /\ effects[r] \cap {"replay", "score", "event", "job"} = {})

\* C4 witness: a request answered Conflict after another one was awarded
\* under the same key
C4_Witness ==
  \E r1, r2 \in Reqs :
    /\ out[r2].error = "conflict" /\ rq[r1].key = rq[r2].key
    /\ Applied(r1)

C5_ReplayStep ==
  \A r \in Reqs :
    (/\ pc[r] = "IdemReserved"
     /\ PairOf(r) \in replay
     /\ pc'[r] \notin {"IdemReserved", "Failed"}) =>
      /\ pc'[r] = "Rejected"
      /\ out'[r].status = 409 /\ out'[r].error = "replay"
      /\ UNCHANGED <<zset, mirror>>

\* C5: the same (user_id, action_id) submitted again under a different
\* idempotency key while its replay record is retained is rejected (409, as
\* a replay once it reaches the replay guard) and changes no total.
C5_ReplayRejected ==
  /\ [][C5_ReplayStep]_vars
  /\ [](\A r1, r2 \in Reqs :
          (/\ r1 # r2 /\ PairOf(r1) = PairOf(r2) /\ rq[r1].key # rq[r2].key
           /\ Applied(r1) /\ replayExpired[PairOf(r1)] = 0
           /\ rq[r2].action_type \in DOMAIN Rules /\ Answered(r2)) =>
            /\ out[r2].status = 409 /\ ~Applied(r2))

\* C5 witness: awarded under one key, rejected as a replay under another
C5_Witness ==
  \E r1, r2 \in Reqs :
    /\ r1 # r2 /\ PairOf(r1) = PairOf(r2) /\ rq[r1].key # rq[r2].key
    /\ out[r1].status = 200 /\ out[r2].error = "replay"
    /\ replayExpired[PairOf(r1)] = 0

C6_RejectStep ==
  \A r \in Reqs :
    (out[r].status = 0 /\ out'[r].status \in {400, 401}) =>
      UNCHANGED <<zset, mirror, idem, replay, log, nextSeq, queue>>

\* C6: a request rejected for want of a valid token (401) or for an unknown
\* or disabled action type (400) is rejected before any state is written:
\* totals, idempotency and replay records, the event log and the
\* persistence queue are as they were.
C6_EarlyRejectNoEffects ==
  /\ [][C6_RejectStep]_vars
  /\ [](\A r \in Reqs :
          /\ out[r].status \in {400, 401} => effects[r] = {}
          /\ (rq[r].user \notin Users
              /\ pc[r] \notin {"Idle", "Received", "Failed"}) =>
               (pc[r] = "Rejected" /\ out[r].status = 401)
          /\ (rq[r].user \in Users /\ rq[r].action_type \notin DOMAIN Rules
              /\ pc[r] \notin {"Idle", "Received", "Authorized", "Failed"}) =>
               (pc[r] = "Rejected" /\ out[r].status = 400))

\* C6 witness: an unknown action type was rejected while another user's
\* award stood
C6_Witness ==
  \E r1, r2 \in Reqs :
    /\ out[r1].status \in {400, 401} /\ rq[r1].action_type = "foo"
    /\ Applied(r2)

\* the requests that have called checkAndReserve with key k
Reservers(k) == {r \in Reqs : rq[r].key = k /\ work[r].idem # None}

\* C7: of the callers of checkAndReserve with one key that held no record
\* (and whose record did not expire in between), exactly one observes Fresh;
\* every other observes Duplicate (same fingerprint) or Conflict (another).
C7_ExactlyOneFresh ==
  \A k \in Keys :
    (idemExpired[k] = 0 /\ Reservers(k) # {}) =>
      \E f \in Reservers(k) :
        /\ work[f].idem = "Fresh"
        /\ \A o \in Reservers(k) \ {f} :
             work[o].idem = IF PayloadHash(rq[o]) = PayloadHash(rq[f])
                              THEN "Duplicate" ELSE "Conflict"

\* C7 witness: a second caller was answered while the first, which got
\* Fresh, was still between its reservation and the replay guard
C7_Witness ==
  \E r1, r2 \in Reqs :
    /\ r1 # r2 /\ rq[r1].key = rq[r2].key /\ idemExpired[rq[r1].key] = 0
    /\ work[r1].idem = "Fresh" /\ pc[r1] = "IdemReserved"
    /\ work[r2].idem = "Duplicate"

IncrementsApplied(u) == Cardinality({c \in Callers : incDone[c] /\ incTarget[c] = u})

\* C8: after N concurrent increment(user, +1) from a cold total of 0 the
\* user's total is exactly N under every interleaving, and rank(user) is
\* the 1-based position of the user among all users' totals at that instant.
C8_NoLostUpdateAndRank ==
  \A u \in StoreUsers :
    /\ ZScore(zset, u) = IncrementsApplied(u)
    /\ u \in DOMAIN zset =>
         LET n == Cardinality(DOMAIN zset)
             all == TopK(zset, n)
             rk == Rank(zset, u)
         IN  /\ rk \in 1..n
             /\ all[rk].user_id = u
             /\ rk > Cardinality({m \in DOMAIN zset : zset[m] > zset[u]})
             /\ rk <= Cardinality({m \in DOMAIN zset : zset[m] >= zset[u]})

\* C8 witness: every increment is applied, one user holds at least two of
\* them and stands second behind another user
C8_Witness ==
  /\ \A c \in Callers : incDone[c]
  /\ \E u \in StoreUsers : ZScore(zset, u) >= 2 /\ Rank(zset, u) = 2

\* C9: topK(k) has at most k entries, names no user twice and is ordered
\* by descending total, equal totals by the one tie-break of the sorted set
\* (the greater member first); each entry carries the member's total.
C9_TopKOrdered ==
  \A k \in 0..MaxK :
    LET t == TopK(zset, k) IN
    /\ Len(t) <= k
    /\ \A i, j \in 1..Len(t) :
         i < j => /\ t[i].user_id # t[j].user_id
                  /\ \/ t[i].total > t[j].total
                     \/ t[i].total = t[j].total /\ t[i].user_id > t[j].user_id
    /\ \A i \in 1..Len(t) :
         /\ t[i].user_id \in DOMAIN zset
         /\ t[i].total = zset[t[i].user_id]

\* C9 witness: three members, two of them level at the top, and the read
\* is cut to two entries
C9_Witness ==
  /\ Cardinality(DOMAIN zset) = 3
  /\ Len(TopK(zset, 2)) = 2
  /\ TopK(zset, 2)[1].total = TopK(zset, 2)[2].total

\* every event after the id is still in the log
AllLaterRetained(from) ==
  from < nextSeq /\ \A e \in (from + 1)..(nextSeq - 1) : e \in Retained(log)

C10_ResumeStep ==
  \A s \in Subscribers :
    (subs[s].state = "off" /\ subs'[s].state = "live") =>
      IF AllLaterRetained(subs'[s].from)
        THEN ~subs'[s].gap /\ subs'[s].cursor = subs'[s].from
        ELSE subs'[s].gap

RetryUnderNewKey(r1, r2) ==
  /\ r1 # r2 /\ Sent(r1) /\ Sent(r2)
  /\ PairOf(r1) = PairOf(r2) /\ rq[r1].key # rq[r2].key
  /\ rq[r1].action_type = rq[r2].action_type
  /\ JwtValid(rq[r1]) /\ rq[r1].action_type \in DOMAIN Rules

\* C11: an award request that failed before its increment (step 4) has
\* changed no state that other requests see, and a retry of the same action
\* under a new idempotency key is awarded normally (200).
C11_FailedEarlyRetryAwarded ==
  \A r1 \in Reqs :
    (pc[r1] = "Failed" /\ ~Applied(r1)) =>
      /\ effects[r1] = {}
      /\ \A r2 \in Reqs :
           (RetryUnderNewKey(r1, r2) /\ Answered(r2)
            /\ \A o \in Reqs \ {r1, r2} : ~Sent(o)) =>
             out[r2].status = 200

\* the increment was applied and the handler then stopped: the caller
\* never received the result
AckLost(r) == Applied(r) /\ pc[r] = "Failed"

AcknowledgedTotals(u) ==
  {out[r].total : r \in {x \in Reqs : pc[x] = "Completed" /\ rq[x].user = u}}

\* the totals ZINCRBY has returned to a handler
IncrementedTotals(u) ==
  {work[r].total : r \in {x \in Reqs : Applied(x) /\ rq[x].user = u}}

\* the points of the increments applied for a user
AppliedPoints(u) ==
  SumOver([r \in Reqs |-> work[r].points],
          {x \in Reqs : Applied(x) /\ rq[x].user = u})

\* GET /v1/users/me/score: the user's total and 1-based rank
MyScore(z, u) == [user_id |-> u, total |-> ZScore(z, u), rank |-> Rank(z, u)]

\* what GET /v1/leaderboard?limit=k and GET /v1/users/me/score return when
\* they read the current state: the (user, total) pairs
ReadTotals ==
  UNION {{<<TopK(zset, k)[i].user_id, TopK(zset, k)[i].total>> :
            i \in 1..Len(TopK(zset, k))} : k \in 1..MaxK}
  \cup {<<u, MyScore(zset, u).total>> : u \in DOMAIN zset}

\* C13 as stated: a rank or top-K query returns only totals that an award
\* response has already acknowledged to a caller.
C13_ReadsOnlyAcknowledged ==
  \A e \in ReadTotals : e[2] \in AcknowledgedTotals(e[1])

\* C13 (amended): a rank or top-K query returns only totals of completely
\* applied increments -- each total read is one that ZINCRBY returned and is
\* the sum of the points of the increments applied for the user -- whether
\* or not the award's response has reached its caller yet.
C13_ReadsOnlyAppliedIncrements ==
  \A e \in ReadTotals :
    /\ e[2] \in IncrementedTotals(e[1])
    /\ e[2] = AppliedPoints(e[1])

\* C13 witness: a read returns a user's total of 30 out of two increments
\* while the second award's handler is still before its response
C13_Witness ==
  \E r \in Reqs :
    /\ pc[r] = "ScoreUpdated"
    /\ <<rq[r].user, 30>> \in ReadTotals
    /\ 30 \notin AcknowledgedTotals(rq[r].user)

\* C15: once the increment of step 4 is committed the total is not rolled
\* back, and the request reaches Completed with its persistence job queued:
\* its handler never ends anywhere else.
C15_CommittedIncrementCompletes ==
  \A r \in Reqs :
    Applied(r) =>
      /\ ZScore(zset, rq[r].user) >= work[r].total
      /\ pc[r] \in {"ScoreUpdated", "Published", "Enqueued", "Completed"}
      /\ pc[r] = "Completed" => "job" \in effects[r]

\* the jobs in the dead-letter queue
DeadLettered == {dlq[i] : i \in 1..Len(dlq)}
Queued == {queue[i] : i \in 1..Len(queue)}

\* the points of the written jobs of a user
WrittenPoints(u) ==
  SumOver([j \in written |-> j.points], {j \in written : j.user_id = u})

\* C14: every job handed to the worker ends written -- its award row is in
\* score_awards, which holds one row per idempotency key at most (an INSERT
\* under a key that is there changes nothing), and its points were then
\* added to the user's total -- or in the dead-letter queue, never both,
\* and no job is attempted more than MaxAttempts times.
C14_WrittenOrDeadLettered ==
  /\ [](\A a \in JobIds : attempts[a] <= MaxAttempts)
  /\ [](\A x, y \in scoreAwards : x.idempotency_key = y.idempotency_key => x = y)
  /\ [][\A j \in Queued :
          (\E x \in scoreAwards : x.idempotency_key = j.idempotency_key) =>
            InsertAward(scoreAwards, j) = scoreAwards]_vars
  /\ [](\A j \in written :
          /\ \E x \in scoreAwards : x.idempotency_key = j.idempotency_key
          /\ j \notin DeadLettered /\ j \notin Queued)
  /\ [](\A u \in Users :
          (IF u \in DOMAIN userScores THEN userScores[u] ELSE 0) = WrittenPoints(u))
  /\ \A a \in JobIds :
       (\E j \in Queued : j.award_id = a)
         ~> (\E j \in written \cup DeadLettered : j.award_id = a)

\* C14 witness: the queue is drained; one job was written at its second
\* attempt (its first INSERT stood, the repeated one was a no-op), one was
\* written although its key's row was another job's, one was given up
C14_Witness ==
  /\ queue = <<>> /\ JobsHanded = MaxJobs
  /\ \E j \in written : attempts[j.award_id] = 2 /\ AwardRow(j) \in scoreAwards
  /\ \E j \in written : AwardRow(j) \notin scoreAwards
  /\ dlq # <<>>

\* 1 + 2 + ... + n
Triangle(n) == SumOver([i \in 1..n |-> i], 1..n)

\* C16: for every integer n of the range, sum_to_n_a, sum_to_n_b,
\* sum_to_n_c and sum_to_n_d return the same value: 1 + 2 + ... + n, which
\* is n(n+1)/2, when n >= 0, and 0 when n is negative.
C16_AllFourAgree ==
  \A f \in SumFunctions :
    sumOut[f] # NoResult =>
      /\ sumOut[f] = IF sumN >= 0 THEN Triangle(sumN) ELSE 0
      /\ sumN >= 0 => 2 * sumOut[f] = sumN * (sumN + 1)
      /\ \A g \in SumFunctions : sumOut[g] # NoResult => sumOut[g] = sumOut[f]

\* C16 witness: all four have returned 21 for n = 6, the largest argument
C16_Witness ==
  /\ sumN = MaxN
  /\ \A f \in SumFunctions : sumOut[f] = Triangle(MaxN) /\ sumOut[f] > 0

\* a step that answers request q of the book routes
Answers(q) == served' = served + 1 /\ last'.req = q

\* one of the limiters in front of the route blocks the request
BooksLimited(q) ==
  \/ Blocked(hits.general, ANONYMOUS_maxRequests)
  \/ q.method \in WriteMethods /\ Blocked(hits.write, WRITE_OPERATIONS_maxRequests)

C17_NoTokenStep ==
  \A q \in BookRequests :
    (Answers(q) /\ q.token = NoToken) =>
      /\ q.method \in WriteMethods =>
           /\ books' = books
           /\ IF BooksLimited(q)
                THEN last'.status = 429
                ELSE last'.status = 401 /\ last'.error = "Access token required"
      /\ q.method = "LIST" =>
           last'.status = IF BooksLimited(q) THEN 429 ELSE 200

LacksField(b) == b.title = Missing \/ b.author = Missing

C18_MissingFieldStep ==
  \A q \in BookRequests :
    (Answers(q) /\ q.method \in {"POST", "PUT"} /\ LacksField(q.body)) =>
      /\ books' = books
      /\ IF BooksGate(q).status # 0
           THEN last'.status = BooksGate(q).status /\ last'.status \in {401, 429}
           ELSE /\ last'.status = 400
                /\ last'.error = IF q.method = "PUT" /\ ParseInt(q.id) = NaN
                                   THEN "Invalid book ID"
                                   ELSE "Title and author are required"

NamesUnstored(q) ==
  q.method \in {"GET", "PUT", "DELETE"} /\ ParseInt(q.id) # NaN
    /\ ParseInt(q.id) \notin DOMAIN books

C19_UnstoredStep ==
  \A q \in BookRequests :
    (Answers(q) /\ NamesUnstored(q)) =>
      (last'.status = 404 /\ books' = books)

C19_LookupStep ==
  \A q \in BookRequests :
    Answers(q) =>
      /\ NamesUnstored(q) =>
           /\ books' = books
           /\ last'.status =
                IF BooksGate(q).status # 0 THEN BooksGate(q).status
                ELSE IF q.method = "PUT" /\ LacksField(q.body) THEN 400
                ELSE 404
      /\ (q.method = "GET" /\ last'.status = 200) => ParseInt(q.id) \in DOMAIN books
      /\ (q.method = "DELETE" /\ last'.status = 200) =>
           /\ ParseInt(q.id) \in DOMAIN books
           /\ DOMAIN books' = DOMAIN books \ {ParseInt(q.id)}
      /\ \A id \in DOMAIN books' \ DOMAIN books :
           q.method = "POST" /\ last'.status = 201

EmailTaken(b) == \E i \in 1..Len(usersDb) : usersDb[i].email = ToLowerCase(b.email)

C20_DuplicateStep ==
  \A b \in RegisterBodies :
    (/\ served' = served + 1 /\ last'.req = RegisterRequest(b)
     /\ b.password >= 6 /\ b.firstName # Missing /\ b.lastName # Missing
     /\ ~Blocked(hits.auth, AUTH_maxRequests)
     /\ EmailTaken(b)) =>
      /\ last'.status = 400
      /\ last'.error = "User with this email already exists"
      /\ usersDb' = usersDb

\* C20: a register request (otherwise valid, within the rate limit) whose
\* email already belongs to a stored user is answered 400 "User with this
\* email already exists" and no second user is created, after any sequence
\* of register requests.
C20_DuplicateEmailRejected == [][C20_DuplicateStep]_vars

\* a step that answers request q of the mounted application
Calls(q) == served' = served + 1 /\ res'.req = q

\* the account a login request names, NoUser when there is none
Named(q) == FindAccountByEmail(accounts, q.email)

\* the login request carries the password stored for an active account
LoginMatches(q) ==
  /\ q.db = "ok" /\ q.email # Missing
  /\ Named(q) # NoUser
  /\ accounts[Named(q)].isActive
  /\ accounts[Named(q)].password = <<"bcrypt", q.password>>

\* the change-password request is sent by an active user with the stored
\* current password and a new password of at least 6 characters
ChangeIsValid(q) ==
  /\ q.token \in DOMAIN accounts /\ accounts[q.token].isActive
  /\ accounts[q.token].password = <<"bcrypt", q.password>>
  /\ StrLen(q.newPassword) >= 6

C21_AsStatedStep ==
  /\ \A q \in ChangePasswordRequests :
       (Calls(q) /\ ChangeIsValid(q)) =>
          accounts'[q.token].password = <<"bcrypt", q.newPassword>>
  /\ \A q \in LoginRequests :
       (Calls(q) /\ LoginMatches(q)) => res'.status = 200
  /\ \A q \in ChangePasswordRequests :
       (Calls(q) /\ res'.status \in {400, 401}) => accounts' = accounts

C21_ChangeStep ==
  \A q \in ChangePasswordRequests :
    Calls(q) =>
      /\ IF res'.status = 200
           THEN /\ ChangeIsValid(q)
                /\ accounts' = [accounts EXCEPT
                                  ![q.token].password = <<"bcrypt", q.newPassword>>]
           ELSE accounts' = accounts
      /\ (ChangeIsValid(q) /\ ~Blocked(hits.auth, AUTH_maxRequests)
            /\ ~Blocked(sensitive, SENSITIVE_max)) => res'.status = 200
      /\ res'.handler =>
           /\ StrLen(q.newPassword) < 6 => res'.status = 400
           /\ (StrLen(q.newPassword) >= 6
                 /\ accounts[q.token].password # <<"bcrypt", q.password>>) =>
                res'.status = 401

C21_LoginStep ==
  \A q \in LoginRequests :
    Calls(q) =>
      /\ accounts' = accounts
      /\ LoginMatches(q) =>
           res'.status = IF Blocked(hits.auth, AUTH_maxRequests) THEN 429 ELSE 200
      /\ res'.status = 200 => LoginMatches(q)

ValidTokenOf(q) == q.token \in DOMAIN accounts /\ accounts[q.token].isActive

\* C22: every response to a request that carries a valid token of an
\* active non-admin user has X-Rate-Limit-Tier = "user" ("admin" for an
\* admin), and "anonymous" only when no valid token is sent.
C22_TierFollowsToken ==
  res.req.path # "none" =>
    /\ ValidTokenOf(res.req) =>
         res.tier = IF accounts[res.req.token].role = "admin" THEN "admin" ELSE "user"
    /\ res.tier = "anonymous" => ~ValidTokenOf(res.req)

\* the limit the tiers give the sender of q: 500 for a regular user, 2000
\* for an admin, 100 for a request without a user
TierLimit(q) ==
  IF ValidTokenOf(q)
    THEN IF accounts[q.token].role = "admin" THEN 2000 ELSE 500
    ELSE 100

\* C23: on /api/books the adaptive limiter allows an authenticated regular
\* user 500 requests per window and an admin 2000, and a request without
\* a user 100: a GET /api/books is answered 429 exactly when the window
\* already holds that many requests.
C23_AdaptiveLimitByRole ==
  [][\A q \in BookListRequests :
       Calls(q) => (res'.status = 429 <=> hits.general >= TierLimit(q))]_vars

\* C24: a write request (POST /api/books) sent by an authenticated admin
\* is not counted by the write-operations limiter and not blocked by it.
C24_AdminWriteBypass ==
  [][\A q \in BookPostRequests :
       (Calls(q) /\ ValidTokenOf(q) /\ accounts[q.token].role = "admin") =>
          /\ hits'.write = hits.write
          /\ res'.status = 429 => hits.general >= ANONYMOUS_maxRequests]_vars

\* the requests to /api/auth
AuthRequests == LoginRequests \cup ChangePasswordRequests \cup ProfileRequests

C25_AsStatedStep ==
  \A q \in AuthRequests :
    Calls(q) =>
      IF hits.auth < 20
        THEN res'.remaining = 20 - (hits.auth + 1)
        ELSE /\ res'.status = 429 /\ res'.error = "Rate limit exceeded"
             /\ ~res'.handler

\* C25 as stated: within one window each request to /api/auth lowers
\* RateLimit-Remaining by one; at most 20 requests reach a handler and
\* every further one is answered 429 "Rate limit exceeded" without
\* reaching a handler.
C25_RemainingCountsDown ==
  /\ [][C25_AsStatedStep]_vars
  /\ [](passed <= 20)

\* what rateLimiters.sensitive leaves in RateLimit-Remaining
SensitiveRemaining == IF sensitive >= 10 THEN 0 ELSE 10 - (sensitive + 1)

C25_AuthStep ==
  \A q \in AuthRequests :
    Calls(q) =>
      IF hits.auth < 20
        THEN /\ hits'.auth = hits.auth + 1
             /\ passed' = passed + 1
             /\ res'.remaining =
                  IF q \in ChangePasswordRequests THEN SensitiveRemaining
                  ELSE 20 - (hits.auth + 1)
             /\ q \notin ChangePasswordRequests => res'.status # 429
        ELSE /\ res'.status = 429 /\ res'.error = "Rate limit exceeded"
             /\ ~res'.handler
             /\ res'.remaining = 0
             /\ passed' = passed
             /\ accounts' = accounts /\ sensitive' = sensitive

\* C25 (amended): within one 15-minute window each request to /api/auth
\* that the auth limiter admits lowers that limiter's remaining count by
\* one, and the response carries it in RateLimit-Remaining, except on
\* change-password, where the sensitive limiter runs next and overwrites
\* the header with its own remaining count (and may itself answer 429).
\* At most 20 requests get past the auth limiter; every further request
\* of the window is answered 429 "Rate limit exceeded" with remaining 0
\* and reaches no handler; when the window ends the count starts again.
C25_AuthWindowLimit ==
  /\ [][C25_AuthStep]_vars
  /\ [][window' # window => (hits'.auth = 0 /\ passed' = 0)]_vars
  /\ [](passed <= 20 /\ (hits.auth <= 20 => passed = hits.auth))

\* C25 witness: the window held 20 admitted requests and a login was
\* answered 429 without reaching the handler
C25_Witness ==
  /\ passed = 20 /\ hits.auth = 21
  /\ res.req.path = "/api/auth/login"
  /\ res.status = 429 /\ ~res.handler /\ res.remaining = 0

\* C26 as stated: every /api/admin route answers 401 when no valid token
\* of an active user is presented and 403 "Insufficient permissions" when
\* the authenticated user is not an admin; the handler body runs only for
\* an authenticated admin.
C26_AdminOnly ==
  [][\A q \in AdminRequests :
       Calls(q) =>
         /\ ~ValidTokenOf(q) => res'.status = 401
         /\ (ValidTokenOf(q) /\ q.db = "ok" /\ accounts[q.token].role # "admin") =>
              (res'.status = 403 /\ res'.error = "Insufficient permissions")
         /\ res'.handler => (ValidTokenOf(q) /\ accounts[q.token].role = "admin")]_vars

C26_AdminStep ==
  \A q \in AdminRequests :
    Calls(q) =>
      /\ res'.handler <=> res'.status = 200
      /\ res'.status =
           IF sensitive >= 10 THEN 429
           ELSE IF ~ValidTokenOf(q) THEN 401
           ELSE IF q.db = "fails" THEN 500
           ELSE IF accounts[q.token].role # "admin" THEN 403
           ELSE 200
      /\ res'.status = 403 => res'.error = "Insufficient permissions"
      /\ accounts' = accounts /\ books' = books

\* C26 (amended): every /api/admin route is behind the sensitive rate
\* limiter (10 requests per hour, shared with change-password), which
\* answers 429 first when its window is full.  Otherwise the route
\* answers 401 when no valid token of an active user is presented, 500
\* when the user lookup fails, and 403 "Insufficient permissions" when the
\* authenticated user is not an admin; the handler body runs, and 200 is
\* answered, only for an authenticated admin.
C26_AdminOnlyPastLimiter == [][C26_AdminStep]_vars

\* C26 witness: the regular user 1 asked an admin route and was answered
\* 403 without the handler running
C26_Witness ==
  /\ res.req.path \in AdminPaths /\ res.req.token = 1
  /\ res.status = 403 /\ res.error = "Insufficient permissions"
  /\ ~res.handler

\* the body bookRoutes.test.ts sends: title, author and year
TestBook == [title |-> "T1", author |-> "Au", year |-> 2024]

C27_PostStep ==
  \A q \in BookRequests :
    (Answers(q) /\ q.method = "POST" /\ q.body = TestBook) =>
      /\ q.token = NoToken =>
           /\ books' = books
           /\ last'.status = IF BooksLimited(q) THEN 429 ELSE 401
      /\ (q.token = 1 /\ Len(usersDb) >= 1 /\ ~BooksLimited(q)) => last'.status = 201
      /\ last'.status = 201 =>
           /\ q.token = 1 /\ Len(usersDb) >= 1
           /\ \E id \in (1..MaxBookId) \ DOMAIN books :
                /\ DOMAIN books' = DOMAIN books \cup {id}
                /\ books'[id] = TestBook
                /\ \A i \in DOMAIN books : books'[i] = books[i]
      /\ last'.status # 201 => books' = books

C28_LoginEventsMatchStatus ==
  res.req.path # "none" =>
    /\ "failed_login_attempt" \in res.events <=>
         (res.req.path = "/api/auth/login" /\ res.status = 401)
    /\ "successful_login" \in res.events <=>
         (res.req.path = "/api/auth/login" /\ res.status = 200)

\* the routes that run authenticateToken
AuthenticatedPaths ==
  {"/api/auth/profile", "/api/auth/change-password", "POST /api/books"} \cup AdminPaths

\* authenticateToken ran for the request answered last: its route has the
\* middleware and no limiter in front of it ended the request
RanAuthenticateToken == res.req.path \in AuthenticatedPaths /\ res.status # 429

\* C29: on every path (missing token, invalid or expired token, unknown or
\* inactive user, valid user, unexpected error) authenticateToken either
\* sends exactly one error response (401, or 500 for an unexpected error)
\* and never calls next, or sets req.user to the active user of the token
\* and calls next exactly once without sending a response.
C29_OneResponseOrNext ==
  RanAuthenticateToken =>
    LET q == res.req IN
    /\ \/ /\ res.authSends = 1 /\ res.authNexts = 0
          /\ res.user = NoUser /\ ~res.handler
          /\ res.status \in {401, 500}
       \/ /\ res.authSends = 0 /\ res.authNexts = 1
          /\ res.user = q.token /\ ValidTokenOf(q)
    /\ q.token = NoToken => (res.status = 401 /\ res.error = "Access token required")
    /\ q.token \in {BadToken, ExpiredToken} =>
         (res.status = 401 /\ res.error = "Invalid token")
    /\ (q.token > 0 /\ q.db = "ok" /\ ~ValidTokenOf(q)) =>
         (res.status = 401 /\ res.error = "Invalid token or user not found")
    /\ (q.token > 0 /\ q.db = "fails") =>
         (res.status = 500 /\ res.error = "Authentication error")
    /\ (q.db = "ok" /\ ValidTokenOf(q)) => res.authNexts = 1

\* C29 witness: the profile of user 1 was asked with its token:
\* authenticateToken set req.user, called next once and sent nothing
C29_Witness ==
  /\ res.req.path = "/api/auth/profile" /\ res.req.token = 1 /\ res.req.db = "ok"
  /\ res.authNexts = 1 /\ res.authSends = 0
  /\ res.user = 1 /\ res.handler /\ res.status = 200

=============================================================================
